---- MODULE Spec2Model ----
(***************************************************************************)
(* Model of GitRepositoryManager (src/src/git_repository_manager.py): the  *)
(* configuration file, the per-repository update sequence and the run of   *)
(* update_all_repositories over the loaded mapping.                        *)
(*                                                                         *)
(* Python values are modelled as follows: the booleans and None returned   *)
(* by the helpers are the strings "True", "False" and "None"; a str is a   *)
(* sequence of one-character strings; a dict is the sequence of its        *)
(* entries in insertion order; an exception leaving a function is the      *)
(* field raised = TRUE of the function's result.                           *)
(***************************************************************************)
EXTENDS Integers, Sequences, FiniteSets, TLC

\* Largest number of entries of the configuration mapping.
MaxEntries == 2

\* Largest number of direct load_paths calls in a row.
MaxLoads == 2

\* Longest stdout given to a direct _has_changes call.
MaxOutLen == 2

\* Keys of the mapping (unique in a JSON object once loaded into a dict).
Names == {"a", "b", "c"}

\* Filesystem locations a value of the mapping can name.
Paths == {"p1", "p2"}

\* A value of the mapping that is valid JSON but not a string (e.g. 1).
NonStr == "nonstr"

PathValues == Paths \cup {NonStr}

\* What the filesystem holds at a path: nothing, a directory without .git,
\* a directory with .git, or a location whose stat fails with EACCES.
FsKinds == {"missing", "plain", "repo", "denied"}

\* Ways subprocess.run(..., check=True) can end: exit status zero, non-zero
\* exit (CalledProcessError), or another exception (e.g. FileNotFoundError
\* when the git executable is not on the path).
RunKinds == {"exit0", "nonzero", "oserror"}

\* Captured stdout of "git status --porcelain".
StatusOutputs == {<<>>, <<" ", "\n">>, <<" ", "M", " ", "f", "\n">>}

Whitespace == {" ", "\n"}

\* Characters of the stdout given to a direct _has_changes call.
Chars == Whitespace \cup {"M"}

UnitOutputs == UNION {[1..n -> Chars] : n \in 0..MaxOutLen}

StatusRuns == [kind : RunKinds, stdout : StatusOutputs]

\* Outcomes the environment can give to the subprocesses of one update.
Envs == [status : StatusRuns, add : RunKinds, commit : RunKinds, push : RunKinds,
         stat_raises : BOOLEAN]

\* One representative of each class of outcomes that one update can tell
\* apart: a process that did not exit with status zero has no stdout that is
\* read, and the commands after a failed one are not run, so their outcomes
\* are fixed to exit0 there; only a stat that fails can raise.
EnvsFor(kind) ==
  {e \in Envs :
     /\ e.stat_raises => kind = "denied"
     /\ kind # "repo" =>
           e.status = [kind |-> "exit0", stdout |-> <<>>] /\ e.add = "exit0"
     /\ e.status.kind # "exit0" => e.status.stdout = <<>> /\ e.add = "exit0"
     /\ e.add # "exit0" => e.commit = "exit0"
     /\ e.commit # "exit0" => e.push = "exit0"}

Entries == [name : Names, path : PathValues]

\* Mappings: entry sequences with pairwise distinct names.
Mappings ==
  {m \in UNION {[1..n -> Entries] : n \in 0..MaxEntries} :
     \A i, j \in 1..Len(m) : i # j => m[i].name # m[j].name}

\* json.dump(paths, file, indent=4): the text written for a dict, as the
\* sequence of its tokens (white space between tokens left out).
RECURSIVE json_members(_)
json_members(items) ==
  IF items = <<>> THEN <<>>
  ELSE <<items[1].name, ":", items[1].path>>
         \o (IF Len(items) > 1 THEN <<",">> \o json_members(Tail(items)) ELSE <<>>)

json_dump(items) == <<"{">> \o json_members(items) \o <<"}">>

\* dict[key] = value: a key already present keeps its position.
dict_set(items, name, value) ==
  IF \E i \in 1..Len(items) : items[i].name = name
    THEN [i \in 1..Len(items) |->
            IF items[i].name = name THEN [name |-> name, path |-> value]
            ELSE items[i]]
    ELSE Append(items, [name |-> name, path |-> value])

\* The members of a JSON object after its opening brace.
RECURSIVE json_parse_members(_, _)
json_parse_members(t, acc) ==
  IF Len(t) >= 4 /\ t[1] \in Names /\ t[2] = ":" /\ t[3] \in PathValues
    THEN IF t[4] = "}" /\ Len(t) = 4
           THEN [ok |-> TRUE, items |-> dict_set(acc, t[1], t[3])]
         ELSE IF t[4] = ","
           THEN json_parse_members(SubSeq(t, 5, Len(t)), dict_set(acc, t[1], t[3]))
         ELSE [ok |-> FALSE, items |-> <<>>]
    ELSE [ok |-> FALSE, items |-> <<>>]

\* json.load(file): the dict the text holds; ok = FALSE is JSONDecodeError.
json_load(t) ==
  IF t = <<"{", "}">> THEN [ok |-> TRUE, items |-> <<>>]
  ELSE IF Len(t) >= 1 /\ t[1] = "{" THEN json_parse_members(Tail(t), <<>>)
  ELSE [ok |-> FALSE, items |-> <<>>]

\* Texts that are not JSON: an empty file, a truncated object, a trailing
\* comma.
InvalidTexts == {<<>>, <<"{">>, <<"{", "a", ":", "p1", ",", "}">>}

AbsentFile == [kind |-> "absent", text |-> <<>>]

FileStates ==
  {AbsentFile}
  \cup {[kind |-> "present", text |-> t] : t \in InvalidTexts}
  \cup {[kind |-> "present", text |-> json_dump(m)] : m \in Mappings}

Rec(level, msg, name) ==
  [level |-> level, msg |-> msg, name |-> name, n |-> 0, total |-> 0]

----------------------------------------------------------------------------
(* Helpers *)

RECURSIVE lstrip(_)
lstrip(s) == IF s # <<>> /\ Head(s) \in Whitespace THEN lstrip(Tail(s)) ELSE s

RECURSIVE rstrip(_)
rstrip(s) ==
  IF s # <<>> /\ s[Len(s)] \in Whitespace
    THEN rstrip(SubSeq(s, 1, Len(s) - 1))
    ELSE s

strip(s) == rstrip(lstrip(s))

\* Python truthiness of a helper's result: "not v".
PyNot(v) == v \in {"False", "None"}

\* _has_changes that returns False when the status query fails.
has_changes_false_on_error(run) ==
  CASE run.kind = "exit0" ->
         [ret |-> IF strip(run.stdout) # <<>> THEN "True" ELSE "False",
          raised |-> FALSE, logged |-> <<>>]
    [] run.kind = "nonzero" ->
         [ret |-> "False", raised |-> FALSE,
          logged |-> <<Rec("error", "Failed to check git status", "")>>]
    [] OTHER -> [ret |-> "None", raised |-> TRUE, logged |-> <<>>]

\* _has_changes without the strip: bool(result.stdout).
has_changes_nostrip(run) ==
  CASE run.kind = "exit0" ->
         [ret |-> IF run.stdout # <<>> THEN "True" ELSE "False",
          raised |-> FALSE, logged |-> <<>>]
    [] run.kind = "nonzero" ->
         [ret |-> "None", raised |-> FALSE,
          logged |-> <<Rec("error", "Failed to check git status", "")>>]
    [] OTHER -> [ret |-> "None", raised |-> TRUE, logged |-> <<>>]

\* _has_changes: the result of the status query.
has_changes(run) ==
  CASE run.kind = "exit0" ->
         [ret |-> IF strip(run.stdout) # <<>> THEN "True" ELSE "False",
          raised |-> FALSE, logged |-> <<>>]
    [] run.kind = "nonzero" ->
         [ret |-> "None", raised |-> FALSE,
          logged |-> <<Rec("error", "Failed to check git status", "")>>]
    [] OTHER -> [ret |-> "None", raised |-> TRUE, logged |-> <<>>]

\* _execute_git_command that reports success whatever the exit status.
execute_git_command_always_true(kind) ==
  CASE kind = "exit0" -> [ret |-> "True", raised |-> FALSE, logged |-> <<>>]
    [] kind = "nonzero" ->
         [ret |-> "True", raised |-> FALSE,
          logged |-> <<Rec("error", "Git command failed", "")>>]
    [] OTHER -> [ret |-> "None", raised |-> TRUE, logged |-> <<>>]

\* _execute_git_command: one stage, commit or push invocation.
execute_git_command(kind) ==
  CASE kind = "exit0" -> [ret |-> "True", raised |-> FALSE, logged |-> <<>>]
    [] kind = "nonzero" ->
         [ret |-> "False", raised |-> FALSE,
          logged |-> <<Rec("error", "Git command failed", "")>>]
    [] OTHER -> [ret |-> "None", raised |-> TRUE, logged |-> <<>>]

Run(cmd, kind) == [cmd |-> cmd, kind |-> kind, stdout |-> <<>>]

StatusRun(run) == [cmd |-> "status", kind |-> run.kind, stdout |-> run.stdout]

Result(ret, raised, runs, logged) ==
  [ret |-> ret, raised |-> raised, runs |-> runs, logged |-> logged]

\* The except clause of update_repository.
Unexpected(name, runs, logged) ==
  Result("False", FALSE, runs,
         logged \o <<Rec("error", "Unexpected error updating", name)>>)

\* The try block of update_repository: status query, stage, commit, push.
try_block(name, env) ==
  LET hc == has_changes(env.status)
      r0 == <<StatusRun(env.status)>>
      a  == execute_git_command(env.add)
      r1 == r0 \o <<Run("add", env.add)>>
      c  == execute_git_command(env.commit)
      r2 == r1 \o <<Run("commit", env.commit)>>
      p  == execute_git_command(env.push)
      r3 == r2 \o <<Run("push", env.push)>>
  IN  IF hc.raised THEN Unexpected(name, r0, hc.logged)
      ELSE IF PyNot(hc.ret) THEN
        Result("True", FALSE, r0,
               hc.logged \o <<Rec("info", "No changes to commit", name)>>)
      ELSE IF a.raised THEN Unexpected(name, r1, hc.logged)
      ELSE IF PyNot(a.ret) THEN Result("False", FALSE, r1, hc.logged \o a.logged)
      ELSE IF c.raised THEN Unexpected(name, r2, hc.logged \o a.logged)
      ELSE IF PyNot(c.ret) THEN
        Result("False", FALSE, r2, hc.logged \o a.logged \o c.logged)
      ELSE IF p.raised THEN Unexpected(name, r3, hc.logged \o a.logged \o c.logged)
      ELSE IF PyNot(p.ret) THEN
        Result("False", FALSE, r3, hc.logged \o a.logged \o c.logged \o p.logged)
      ELSE
        Result("True", FALSE, r3,
               hc.logged \o a.logged \o c.logged \o p.logged
                 \o <<Rec("info", "Successfully auto-committed and pushed", name)>>)

\* update_repository without the two path checks.
update_repository_unvalidated(name, value, fsys, env) ==
  IF value = NonStr THEN Result("None", TRUE, <<>>, <<>>)
  ELSE try_block(name, env)

\* update_repository without the check for the .git directory.
update_repository_no_git_check(name, value, fsys, env) ==
  IF value = NonStr THEN Result("None", TRUE, <<>>, <<>>)
  ELSE IF fsys[value] = "denied" /\ env.stat_raises THEN
    Result("None", TRUE, <<>>, <<>>)
  ELSE IF fsys[value] \in {"missing", "denied"} THEN
    Result("False", FALSE, <<>>, <<Rec("error", "Path does not exist", name)>>)
  ELSE try_block(name, env)

\* update_repository(name, path): value is the mapping's value for name.
update_repository(name, value, fsys, env) ==
  IF value = NonStr THEN Result("None", TRUE, <<>>, <<>>)
  ELSE IF fsys[value] = "denied" /\ env.stat_raises THEN
    Result("None", TRUE, <<>>, <<>>)
  ELSE IF fsys[value] \in {"missing", "denied"} THEN
    Result("False", FALSE, <<>>, <<Rec("error", "Path does not exist", name)>>)
  ELSE IF fsys[value] = "plain" THEN
    Result("False", FALSE, <<>>, <<Rec("warning", "not a git repository", name)>>)
  ELSE try_block(name, env)

\* Ways the write of _save_paths can end: the file is written, or open
\* raises OSError (e.g. permission denied).
IoKinds == {"ok", "oserror"}

\* _save_paths that opens the file for writing and writes nothing.
save_paths_no_dump(f, items, io) ==
  IF io = "ok"
    THEN [file |-> [kind |-> "present", text |-> <<>>],
          logged |-> <<>>, raised |-> FALSE]
    ELSE [file |-> f, logged |-> <<Rec("error", "Error writing to", "")>>,
          raised |-> FALSE]

\* _save_paths without the except clause: OSError leaves the function.
save_paths_uncaught(f, items, io) ==
  IF io = "ok"
    THEN [file |-> [kind |-> "present", text |-> json_dump(items)],
          logged |-> <<>>, raised |-> FALSE]
    ELSE [file |-> f, logged |-> <<>>, raised |-> TRUE]

\* _save_paths(paths): the file afterwards and what was logged.
save_paths(f, items, io) ==
  IF io = "ok"
    THEN [file |-> [kind |-> "present", text |-> json_dump(items)],
          logged |-> <<>>, raised |-> FALSE]
    ELSE [file |-> f, logged |-> <<Rec("error", "Error writing to", "")>>,
          raised |-> FALSE]

\* load_paths that replaces a file it cannot parse by the empty mapping.
load_paths_reset_invalid(f, io) ==
  IF f.kind = "absent" THEN
    LET s == save_paths(f, <<>>, io)
    IN  [none |-> FALSE, items |-> <<>>, file |-> s.file,
         logged |-> <<Rec("warning", "not found. Creating empty paths file.", "")>>
                      \o s.logged,
         raised |-> s.raised, wrote |-> io]
  ELSE
    LET d == json_load(f.text)
        s == save_paths(f, <<>>, io)
    IN  IF d.ok
          THEN [none |-> FALSE, items |-> d.items, file |-> f, logged |-> <<>>,
                raised |-> FALSE, wrote |-> "no"]
          ELSE [none |-> TRUE, items |-> <<>>, file |-> s.file,
                logged |-> <<Rec("error", "Error reading", "")>> \o s.logged,
                raised |-> s.raised, wrote |-> io]

\* load_paths: the returned mapping (or None), the file afterwards, the log,
\* and how the write ended when one was made ("no" when none was).
load_paths(f, io) ==
  IF f.kind = "absent" THEN
    LET s == save_paths(f, <<>>, io)
    IN  [none |-> FALSE, items |-> <<>>, file |-> s.file,
         logged |-> <<Rec("warning", "not found. Creating empty paths file.", "")>>
                      \o s.logged,
         raised |-> s.raised, wrote |-> io]
  ELSE
    LET d == json_load(f.text)
    IN  IF d.ok
          THEN [none |-> FALSE, items |-> d.items, file |-> f, logged |-> <<>>,
                raised |-> FALSE, wrote |-> "no"]
          ELSE [none |-> TRUE, items |-> <<>>, file |-> f,
                logged |-> <<Rec("error", "Error reading", "")>>,
                raised |-> FALSE, wrote |-> "no"]

\* The record kept of one load_paths call.
LoadRecord(f, r) ==
  [before |-> f, after |-> r.file, none |-> r.none, items |-> r.items,
   raised |-> r.raised, wrote |-> r.wrote]

\* "if paths is None" in place of "if not paths".
no_paths_none_only(p) == p.none

\* "not paths" for the value load_paths returned.
no_paths(p) == p.none \/ p.items = <<>>

\* "success_count += 1" done for every entry.
count_success_always(count, ret) == count + 1

\* Lines 46-47: the counter after one update_repository result.
count_success(count, ret) == IF PyNot(ret) THEN count ELSE count + 1

----------------------------------------------------------------------------
(* State *)

VARIABLES
  file,           \* the configuration file
  fs,             \* what the filesystem holds at each path
  pc,             \* position of the run of update_all_repositories
  paths,          \* local paths of update_all_repositories
  idx,            \* position of the for loop in paths
  success_count,  \* local success_count
  calls,          \* the update_repository invocations so far, in order
  log,            \* the records given to the logger, in order
  loads,          \* the load_paths calls so far, in order
  probes          \* the direct _has_changes calls so far, in order

vars == <<file, fs, pc, paths, idx, success_count, calls, log, loads, probes>>

Init ==
  /\ file \in FileStates
  /\ fs \in [Paths -> FsKinds]
  /\ pc = "start"
  /\ paths = [none |-> TRUE, items |-> <<>>]
  /\ idx = 0
  /\ success_count = 0
  /\ calls = <<>>
  /\ log = <<>>
  /\ loads = <<>>
  /\ probes = <<>>

\* update_all_repositories, lines 37-43: load the mapping, leave when empty.
LoadPaths ==
  /\ pc = "start"
  /\ \E io \in IoKinds :
       LET r == load_paths(file, io)
           p == [none |-> r.none, items |-> r.items]
       IN  /\ file' = r.file
           /\ loads' = Append(loads, LoadRecord(file, r))
           /\ IF r.raised
                THEN /\ paths' = paths
                     /\ log' = log \o r.logged
                     /\ pc' = "raised"
                ELSE IF no_paths(p)
                THEN /\ paths' = p
                     /\ log' = log \o r.logged
                                 \o <<Rec("warning", "No repository paths found", "")>>
                     /\ pc' = "done"
                ELSE /\ paths' = p
                     /\ log' = log \o r.logged
                     /\ pc' = "loop"
  /\ idx' = 1
  /\ success_count' = 0
  /\ UNCHANGED <<fs, calls, probes>>

\* Lines 45-47: one iteration of the loop over paths.items().
UpdateNext ==
  /\ pc = "loop"
  /\ ~paths.none
  /\ idx <= Len(paths.items)
  /\ \E env \in EnvsFor(IF paths.items[idx].path \in Paths
                            THEN fs[paths.items[idx].path] ELSE "missing") :
       LET e == paths.items[idx]
           r == update_repository(e.name, e.path, fs, env)
       IN  /\ calls' = Append(calls, [name |-> e.name, path |-> e.path,
                                      ret |-> r.ret, raised |-> r.raised,
                                      runs |-> r.runs, logged |-> r.logged])
           /\ log' = log \o r.logged
           /\ IF r.raised
                THEN /\ pc' = "raised"
                     /\ UNCHANGED <<idx, success_count>>
                ELSE /\ pc' = "loop"
                     /\ idx' = idx + 1
                     /\ success_count' = count_success(success_count, r.ret)
  /\ UNCHANGED <<file, fs, paths, loads, probes>>

\* Line 49: the summary after the loop.
LogSummary ==
  /\ pc = "loop"
  /\ ~paths.none
  /\ idx > Len(paths.items)
  /\ log' = Append(log, [level |-> "info", msg |-> "Successfully updated",
                         name |-> "", n |-> success_count,
                         total |-> Len(paths.items)])
  /\ pc' = "done"
  /\ UNCHANGED <<file, fs, paths, idx, success_count, calls, loads, probes>>

Next == LoadPaths \/ UpdateNext \/ LogSummary

Spec == Init /\ [][Next]_vars

----------------------------------------------------------------------------
(* The methods called on their own, as the unit tests call them *)

\* A manager on a configuration file in any state; the repositories play
\* no part.
InitUnit ==
  /\ Init
  /\ fs = [p \in Paths |-> "missing"]

\* manager.load_paths()
CallLoadPaths ==
  /\ pc = "start"
  /\ Len(loads) < MaxLoads
  /\ \E io \in IoKinds :
       LET r == load_paths(file, io)
       IN  /\ file' = r.file
           /\ loads' = Append(loads, LoadRecord(file, r))
           /\ log' = log \o r.logged
  /\ UNCHANGED <<fs, pc, paths, idx, success_count, calls, probes>>

\* manager._has_changes(repo_path), subprocess.run ending as run says.
CallHasChanges ==
  /\ pc = "start"
  /\ probes = <<>>
  /\ \E run \in [kind : RunKinds, stdout : UnitOutputs] :
       LET r == has_changes(run)
       IN  /\ probes' = <<[run |-> run, ret |-> r.ret, raised |-> r.raised,
                            logged |-> r.logged]>>
           /\ log' = log \o r.logged
  /\ UNCHANGED <<file, fs, pc, paths, idx, success_count, calls, loads>>

NextUnit == CallLoadPaths \/ CallHasChanges

SpecUnit == InitUnit /\ [][NextUnit]_vars

----------------------------------------------------------------------------
(* Vocabulary of the properties *)

\* The run of update_all_repositories has ended, by return or by exception.
Terminated == pc \in {"done", "raised"}

CallIdx == 1..Len(calls)

\* The call was made for a path that exists and contains .git.
IsRepo(c) == c.path \in Paths /\ fs[c.path] = "repo"

StatusQueried(c) == Len(c.runs) >= 1 /\ c.runs[1].cmd = "status"

\* The status query exited non-zero.
StatusFailed(c) == StatusQueried(c) /\ c.runs[1].kind = "nonzero"

\* The status query exited with status zero and reported nothing.
StatusClean(c) ==
  StatusQueried(c) /\ c.runs[1].kind = "exit0" /\ strip(c.runs[1].stdout) = <<>>

\* The status query exited with status zero and reported changes.
StatusDirty(c) ==
  StatusQueried(c) /\ c.runs[1].kind = "exit0" /\ strip(c.runs[1].stdout) # <<>>

Logged(c, msg) == \E k \in 1..Len(c.logged) : c.logged[k].msg = msg

\* The commands a call ran after the status query, in order.
Commands(c) == [k \in 1..(Len(c.runs) - 1) |-> c.runs[k + 1].cmd]

IsPrefix(s, t) == Len(s) <= Len(t) /\ \A k \in 1..Len(s) : s[k] = t[k]

Successes == {i \in CallIdx : calls[i].ret = "True"}

SummaryIdx == {k \in 1..Len(log) : log[k].msg = "Successfully updated"}

----------------------------------------------------------------------------
(* C1 - C5 *)

\* C1: for an existing path with .git whose status query exits non-zero,
\* update_repository returns false, does not log "No changes to commit", and
\* the entry is not among the successes the run counts.
C1_StatusFailureIsFailure ==
  \A i \in CallIdx :
    (IsRepo(calls[i]) /\ StatusFailed(calls[i])) =>
      /\ calls[i].ret = "False"
      /\ ~Logged(calls[i], "No changes to commit")
      /\ success_count <= Len(calls) - 1

\* C2: once the run over a mapping of N >= 1 entries has ended,
\* update_repository has been invoked exactly once per entry, in the
\* mapping's order, whatever the outcome of each invocation.
C2_EveryEntryInvokedInOrder ==
  (Terminated /\ ~paths.none /\ Len(paths.items) >= 1) =>
    [i \in CallIdx |-> [name |-> calls[i].name, path |-> calls[i].path]]
      = paths.items

\* C3: for a repository with changes, the commands run after the status
\* query are a prefix of stage, commit, push; when all three exit with zero
\* there are exactly three and the result is true; a command that does not
\* exit with zero is the last one run and the result is false.
C3_StageCommitPushInOrder ==
  \A i \in CallIdx :
    (IsRepo(calls[i]) /\ StatusDirty(calls[i])) =>
      LET c == calls[i]
          failed == {k \in 2..Len(c.runs) : c.runs[k].kind # "exit0"}
      IN  /\ ~c.raised
          /\ IsPrefix(Commands(c), <<"add", "commit", "push">>)
          /\ failed = {} => Commands(c) = <<"add", "commit", "push">> /\ c.ret = "True"
          /\ failed # {} => failed = {Len(c.runs)} /\ c.ret = "False"

\* Witness of C3: one call ran stage, commit and push with success, another
\* stopped at a commit that failed.
C3_Witness ==
  \E i, j \in CallIdx :
    /\ IsRepo(calls[i]) /\ StatusDirty(calls[i])
    /\ Len(calls[i].runs) = 4 /\ calls[i].ret = "True"
    /\ IsRepo(calls[j]) /\ StatusDirty(calls[j])
    /\ Len(calls[j].runs) = 3 /\ calls[j].runs[3].kind = "nonzero"
    /\ calls[j].ret = "False"

\* C4: no exception leaves update_repository, whatever step raises: every
\* invocation returns, and the run of update_all_repositories is not ended
\* by an exception.
C4_NoExceptionPropagates ==
  /\ \A i \in CallIdx : ~calls[i].raised
  /\ pc # "raised"

\* C5: for a repository whose status query exits with zero and reports no
\* changes, update_repository returns true and runs none of stage, commit,
\* push.
C5_NoChangesIsSuccess ==
  \A i \in CallIdx :
    (IsRepo(calls[i]) /\ StatusClean(calls[i])) =>
      /\ calls[i].ret = "True"
      /\ ~calls[i].raised
      /\ Commands(calls[i]) = <<>>

\* Witness of C5: a call whose status output was only whitespace returned
\* true after the status query alone.
C5_Witness ==
  \E i \in CallIdx :
    /\ IsRepo(calls[i]) /\ StatusClean(calls[i])
    /\ calls[i].runs[1].stdout # <<>>
    /\ calls[i].ret = "True" /\ Len(calls[i].runs) = 1

----------------------------------------------------------------------------
(* C6 - C10 *)

\* C6: for an entry whose path does not exist, update_repository returns
\* false and runs no subprocess.
C6_MissingPathRunsNothing ==
  \A i \in CallIdx :
    (calls[i].path \in Paths /\ fs[calls[i].path] = "missing") =>
      /\ calls[i].ret = "False"
      /\ ~calls[i].raised
      /\ calls[i].runs = <<>>

\* Witness of C6: a call for a missing path has returned false.
C6_Witness ==
  \E i \in CallIdx :
    /\ calls[i].path \in Paths /\ fs[calls[i].path] = "missing"
    /\ calls[i].ret = "False" /\ calls[i].runs = <<>>
    /\ Logged(calls[i], "Path does not exist")

\* C7: for an entry whose path exists but holds no .git, update_repository
\* returns false and runs none of status, stage, commit, push.
C7_NotARepoRunsNothing ==
  \A i \in CallIdx :
    (calls[i].path \in Paths /\ fs[calls[i].path] = "plain") =>
      /\ calls[i].ret = "False"
      /\ ~calls[i].raised
      /\ calls[i].runs = <<>>

\* Witness of C7: a call for a directory without .git has returned false.
C7_Witness ==
  \E i \in CallIdx :
    /\ calls[i].path \in Paths /\ fs[calls[i].path] = "plain"
    /\ calls[i].ret = "False" /\ calls[i].runs = <<>>
    /\ Logged(calls[i], "not a git repository")

\* C8: once load_paths has returned the empty mapping or None, the run has
\* returned without raising, its last log record is the warning "No
\* repository paths found", and update_repository was never invoked.
C8_NoPathsWarnsAndReturns ==
  (pc # "start" /\ (paths.none \/ paths.items = <<>>)) =>
    /\ pc = "done"
    /\ calls = <<>>
    /\ log # <<>>
    /\ log[Len(log)] = Rec("warning", "No repository paths found", "")
    /\ SummaryIdx = {}

\* Witness of C8: the file did not parse, load_paths returned None and the
\* run has returned with the warning.
C8_Witness ==
  /\ pc = "done" /\ paths.none
  /\ file.kind = "present" /\ file.text \in InvalidTexts
  /\ log[Len(log)].msg = "No repository paths found"
  /\ calls = <<>>

\* C9: every summary record reports total = the number of entries and
\* successes = the number of entries whose update_repository returned true,
\* with 0 <= successes <= total; a run over a non-empty mapping that has
\* returned has logged it as its last record.
C9_SummaryCountsSuccesses ==
  /\ \A k \in SummaryIdx :
       /\ k = Len(log)
       /\ log[k].total = Len(paths.items)
       /\ Len(calls) = Len(paths.items)
       /\ log[k].n = Cardinality(Successes)
       /\ 0 <= log[k].n /\ log[k].n <= log[k].total
  /\ (pc = "done" /\ ~paths.none /\ paths.items # <<>>) => SummaryIdx # {}

\* Witness of C9: a repository with changes whose three commands succeeded,
\* then a missing path, summary 1/2.
C9_Witness ==
  /\ pc = "done" /\ Len(calls) = 2
  /\ IsRepo(calls[1]) /\ StatusDirty(calls[1]) /\ Len(calls[1].runs) = 4
  /\ calls[1].ret = "True"
  /\ calls[2].path \in Paths /\ fs[calls[2].path] = "missing"
  /\ calls[2].ret = "False"
  /\ log[Len(log)].msg = "Successfully updated"
  /\ log[Len(log)].n = 1 /\ log[Len(log)].total = 2

\* C10: the run never ends by an exception, and when it has ended it has
\* logged its report (the summary, or the warning that there are no paths).
C10_RunAlwaysReportsAndReturns ==
  /\ pc # "raised"
  /\ pc = "done" =>
       \E k \in 1..Len(log) :
         log[k].msg \in {"Successfully updated", "No repository paths found"}

----------------------------------------------------------------------------
(* C11 - C14 *)

EmptyMappingFile == [kind |-> "present", text |-> <<"{", "}">>]

ReturnedEmpty(l) == ~l.raised /\ ~l.none /\ l.items = <<>>

C12_HasChangesTriState ==
  \A k \in 1..Len(probes) :
    LET q == probes[k]
        blank == \A j \in 1..Len(q.run.stdout) : q.run.stdout[j] \in Whitespace
    IN  /\ q.run.kind = "exit0" =>
             /\ ~q.raised
             /\ q.ret = IF blank THEN "False" ELSE "True"
        /\ q.run.kind = "nonzero" =>
             /\ ~q.raised
             /\ q.ret = "None"
             /\ \E j \in 1..Len(q.logged) : q.logged[j].level = "error"

\* Witness of C12: a status query that exited non-zero gave None and an
\* error record.
C12_Witness ==
  /\ Len(probes) = 1
  /\ probes[1].run.kind = "nonzero"
  /\ probes[1].ret = "None"
  /\ probes[1].logged # <<>>

\* C13: a step changes the configuration file only when load_paths finds it
\* absent, and then to the empty mapping; a file that exists, whatever it
\* holds, is never changed by a run.
C13_FileWrittenOnlyWhenAbsent ==
  [][file' # file =>
       /\ file = AbsentFile
       /\ file' = EmptyMappingFile
       /\ pc = "start"]_vars

\* Witness of C13: a run over an existing file with entries has returned,
\* the file is what load_paths found.
C13_Witness ==
  /\ pc = "done" /\ Len(calls) >= 1
  /\ Len(loads) = 1 /\ loads[1].before = file /\ loads[1].after = file
  /\ file.kind = "present" /\ Len(file.text) > 2

\* C14: when the file is absent and the write fails with OSError, nothing is
\* raised: load_paths returns the empty mapping, the file is still absent,
\* the error is logged, and the run returns with the warning "No repository
\* paths found" without invoking update_repository.
C14_WriteFailureLoggedNotRaised ==
  (Len(loads) >= 1 /\ loads[1].before = AbsentFile /\ loads[1].wrote = "oserror") =>
    /\ ReturnedEmpty(loads[1])
    /\ loads[1].after = AbsentFile
    /\ file = AbsentFile
    /\ pc = "done"
    /\ calls = <<>>
    /\ log = <<Rec("warning", "not found. Creating empty paths file.", ""),
               Rec("error", "Error writing to", ""),
               Rec("warning", "No repository paths found", "")>>

\* Witness of C14: the write failed, the run has returned and there is
\* still no file.
C14_Witness ==
  /\ pc = "done"
  /\ Len(loads) = 1 /\ loads[1].before = AbsentFile /\ loads[1].wrote = "oserror"
  /\ file = AbsentFile
  /\ Len(log) = 3 /\ log[2].msg = "Error writing to"

====
